---- MODULE Spec2Model ----
(***************************************************************************)
(* UniAgent: the query-resolution workflow of the multi-university RAG     *)
(* assistant (src/backend.py, src/helper_functions.py) and the caller's    *)
(* session around it (src/app.py, the CLI loop of src/backend.py).         *)
(*                                                                         *)
(* Text (queries, answers, classifier responses, labels) is a sequence of  *)
(* one-character strings, so that strip(), upper(), replace(), len() and   *)
(* the `in` containment test are computed as Python computes them.         *)
(***************************************************************************)
EXTENDS Naturals, Sequences, FiniteSets, TLC

\* ------------------------------------------------------------------ bounds
\* A session issues a further invocation only while its history is this short.
MaxHistory == 1

\* LangGraph's default recursion_limit: workflow.invoke(input_state) passes no
\* config, so a run may execute at most 25 supersteps (one node each here)
\* and raises GraphRecursionError when a 26th would be needed.
RecursionLimit == 25

\* ------------------------------------------------------------------- text
LowerCase == <<"a","b","c","d","e","f","g","h","i","j","k","l","m",
               "n","o","p","q","r","s","t","u","v","w","x","y","z">>
UpperCase == <<"A","B","C","D","E","F","G","H","I","J","K","L","M",
               "N","O","P","Q","R","S","T","U","V","W","X","Y","Z">>

\* str.upper(), one character
UpperChar(c) ==
    IF \E i \in 1..Len(LowerCase) : LowerCase[i] = c
    THEN UpperCase[CHOOSE i \in 1..Len(LowerCase) : LowerCase[i] = c]
    ELSE c

\* str.upper()
upper(s) == [i \in 1..Len(s) |-> UpperChar(s[i])]

IsSpace(c) == c \in {" ", "\n"}

\* str.strip(): leading and trailing whitespace removed
strip(s) ==
    IF \A i \in 1..Len(s) : IsSpace(s[i]) THEN <<>>
    ELSE LET first == CHOOSE i \in 1..Len(s) :
                        /\ ~IsSpace(s[i])
                        /\ \A j \in 1..(i-1) : IsSpace(s[j])
             last  == CHOOSE i \in 1..Len(s) :
                        /\ ~IsSpace(s[i])
                        /\ \A j \in (i+1)..Len(s) : IsSpace(s[j])
         IN  SubSeq(s, first, last)

\* Python's `sub in s` on strings
Contains(s, sub) ==
    \E i \in 1..(Len(s) + 1 - Len(sub)) : SubSeq(s, i, i + Len(sub) - 1) = sub

\* str.replace(c, '') for a one-character c
RECURSIVE RemoveChar(_, _)
RemoveChar(s, c) ==
    IF s = <<>> THEN <<>>
    ELSE IF Head(s) = c THEN RemoveChar(Tail(s), c)
         ELSE <<Head(s)>> \o RemoveChar(Tail(s), c)

\* Python's `a or b` on strings: the empty string is falsy
Or(a, b) == IF a # <<>> THEN a ELSE b

NUST    == <<"N","U","S","T">>
COMSATS == <<"C","O","M","S","A","T","S">>
FAST    == <<"F","A","S","T">>
GENERAL == <<"G","E","N","E","R","A","L">>

\* The keys of VECTOR_DBS: the institutions that have a retrieval index.
Universities == {NUST, COMSATS, FAST}

YES == <<"Y","E","S">>

\* ----------------------------------------------- what the services return
\* The user's questions: the one that opens a conversation, and the follow-up
\* asked once the session holds earlier turns.
OpeningQuery == <<"f","e","e","s","?">>
FollowUpQuery == <<"l","a","b","s","?">>
Queries == { OpeningQuery, FollowUpQuery }

\* resp.content of the routing classifier (supervisor_node)
RouterResponses ==
    { <<" ","n","u","s","t">>,
      <<"F","A","S","T","-","N","U">>,
      <<"B","a","h","r","i","a">> }

\* what rag_chain(query) returns: the parsed output of the generation service
RagAnswers == { <<"a","1">> }

\* response.content of the general agent's model call
GeneralResponses == { <<" ","g","1">> }

\* .content of the quality classifier's response
GateResponses == { <<"Y","E","S">>, <<" ","y","e","s",".">>, <<"N","O">>, <<>> }

\* response.content of the rewriting model call: texts that clean to 5, 4, 2
\* and 0 characters
RewriterResponses ==
    { <<"*","*","N","U","S","T","?","*","*">>,
      <<" ","*","f","e","e","?">>,
      <<"*","o","k","*"," ">>,
      <<"*","*","\n">> }

\* f"An error occurred: {str(e)}"
ErrorAnswer == <<"A","n"," ","e","r","r","o","r">>

\* ------------------------------------------------------------------ state
VARIABLES
    \* the caller's session (st.session_state / persistent_state)
    session_history, session_university,
    \* the position of the invocation and LangGraph's superstep counter
    pc, steps,
    \* the channels of State
    user_query, university_name, rewritten_query, answer, quality_passed,
    conversation_history,
    \* what process_query returned, and whether through try or except
    result, outcome,
    \* history of the run: responder passes so far, label of the last ROUTE
    cycles, routed,
    \* the query text ROUTE and RESPOND of the current cycle worked on
    route_query, respond_query,
    \* the service calls RESPOND of the current cycle made, in order
    responder_calls

vars == << session_history, session_university, pc, steps,
           user_query, university_name, rewritten_query, answer,
           quality_passed, conversation_history, result, outcome,
           cycles, routed, route_query, respond_query, responder_calls >>

\* The function a unit check applies, with its arguments and what it returned
\* (ProbeSpec); no step of the workflow touches it.
VARIABLES probe

\* Two sessions served by one process (ConcSpec): the retrieval indices of
\* backend.py, each session's st.session_state, the State and position of
\* each session's invocation, and the service responses each invocation got.
VARIABLES VECTOR_DBS, store, run, heard

conc == << VECTOR_DBS, store, run, heard >>

\* The two front ends: which of them was started, st.session_state of app.py,
\* persistent_state of backend.py, and the calls of process_query so far.
VARIABLES frontend, session_state, persistent_state, invocations

front == << frontend, session_state, persistent_state, invocations >>

aux == << probe, conc, front >>

used == << route_query, respond_query, responder_calls >>

session == << session_history, session_university >>
channels == << user_query, university_name, rewritten_query, answer,
               quality_passed, conversation_history >>

NoResult == [answer |-> <<>>, university_name |-> <<>>,
             conversation_history |-> <<>>]

Sessions == { "s1", "s2" }

\* load_all_vector_dbs(): one index per institution, here the documents of it.
LoadedVectorDbs == [u \in Universities |-> << <<"d","o","c">> \o u >>]

\* st.session_state of the two sessions, each with a question typed in: a new
\* session, and one that holds an earlier turn about NUST.
InitialStore ==
    [s \in Sessions |->
        IF s = "s1"
        THEN [conversation_history |-> <<>>,
              university_name |-> COMSATS,
              pending_query |-> OpeningQuery]
        ELSE [conversation_history |->
                  << [university |-> NUST, question |-> OpeningQuery,
                      answer |-> <<"a","1">>] >>,
              university_name |-> NUST,
              pending_query |-> FollowUpQuery]]

\* INITIALIZE SESSION STATE of app.py.
InitialSessionState ==
    [messages |-> <<>>, conversation_history |-> <<>>,
     university_name |-> COMSATS, pending_query |-> <<>>]

\* persistent_state of the command line loop of backend.py.
InitialPersistentState ==
    [conversation_history |-> <<>>, university_name |-> COMSATS]

\* No invocation in progress.
Idle == [pc |-> "idle", steps |-> 0, user_query |-> <<>>,
         university_name |-> <<>>, rewritten_query |-> <<>>, answer |-> <<>>,
         quality_passed |-> FALSE, conversation_history |-> <<>>,
         university_arg |-> <<>>, history_arg |-> <<>>, result |-> NoResult]

NoProbe == [fn |-> "none", query |-> <<>>, content |-> <<>>, text |-> <<>>,
            node |-> "none", flag |-> FALSE]

\* add, with the update replacing the old value (a channel without reducer).
add_Overwrite(old, update) == update

\* add, with the operands the wrong way round.
add_Prepend(old, update) == update \o old

\* Annotated[List[Dict[str, str]], add]: operator.add on lists builds a new
\* list, the old value followed by the update.
add(old, update) == old \o update

Init ==
    /\ session_history = <<>>
    /\ session_university = COMSATS
    /\ pc = "idle"
    /\ steps = 0
    /\ user_query = <<>>
    /\ university_name = <<>>
    /\ rewritten_query = <<>>
    /\ answer = <<>>
    /\ quality_passed = FALSE
    /\ conversation_history = <<>>
    /\ result = NoResult
    /\ outcome = "none"
    /\ cycles = 0
    /\ routed = <<>>
    /\ route_query = <<>>
    /\ respond_query = <<>>
    /\ responder_calls = <<>>
    /\ probe = NoProbe
    /\ VECTOR_DBS = LoadedVectorDbs
    /\ store = InitialStore
    /\ run = [s \in Sessions |-> Idle]
    /\ heard = [s \in Sessions |-> <<>>]
    /\ frontend = "none"
    /\ session_state = InitialSessionState
    /\ persistent_state = InitialPersistentState
    /\ invocations = 0

\* ---------------------------------------------------------- process_query
\* process_query builds input_state and workflow.invoke writes it to the
\* channels; keys not given (rewritten_query, answer, quality_passed) are unset.
\* The caller passes its session's history and institution context.  (The
\* first two guards after pc are the model's: which question is asked, and
\* how long a session goes on.)
process_query(query) ==
    /\ pc = "idle"
    /\ query = IF session_history = <<>> THEN OpeningQuery ELSE FollowUpQuery
    /\ Len(session_history) <= MaxHistory
    /\ user_query' = query
    /\ conversation_history' = add(<<>>, session_history)
    /\ university_name' = session_university
    /\ rewritten_query' = <<>>
    /\ answer' = <<>>
    /\ quality_passed' = FALSE
    /\ steps' = 0
    /\ cycles' = 0
    /\ routed' = <<>>
    /\ route_query' = <<>>
    /\ respond_query' = <<>>
    /\ responder_calls' = <<>>
    /\ pc' = "user_input"
    /\ UNCHANGED << session, result, outcome, aux >>

\* ErrorResult, returning the State the run had reached instead of the
\* caller's arguments.
ErrorResult_Partial ==
    [answer |-> ErrorAnswer,
     university_name |-> university_name,
     conversation_history |-> conversation_history]

\* The except branch of process_query: the error message, and the caller's
\* own university_name and conversation_history arguments.
ErrorResult ==
    [answer |-> ErrorAnswer,
     university_name |-> session_university,
     conversation_history |-> session_history]

\* The invocation's State goes out of scope when process_query returns.
Discard ==
    /\ user_query' = <<>>
    /\ university_name' = <<>>
    /\ rewritten_query' = <<>>
    /\ answer' = <<>>
    /\ quality_passed' = FALSE
    /\ conversation_history' = <<>>

\* An exception leaves workflow.invoke and is caught by process_query.
Raise ==
    /\ pc' = "returned"
    /\ outcome' = "error"
    /\ result' = ErrorResult
    /\ Discard
    /\ route_query' = <<>>
    /\ respond_query' = <<>>
    /\ responder_calls' = <<>>
    /\ UNCHANGED << session, steps, cycles, routed, aux >>

\* A node runs as one superstep, while the recursion limit allows one more.
Superstep(node) ==
    /\ pc = node
    /\ steps < RecursionLimit
    /\ steps' = steps + 1

Nodes == { "user_input", "supervisor", "nust_agent", "comsats_agent",
           "fast_agent", "general_agent", "quality_checker",
           "query_rewriter", "printer" }

\* GraphRecursionError, with the limit reached and nothing raised.
GraphRecursionError_Swallowed ==
    /\ pc \in Nodes
    /\ steps >= RecursionLimit
    /\ UNCHANGED << vars, aux >>

\* GraphRecursionError: a node is due and the supersteps are used up.
GraphRecursionError ==
    /\ pc \in Nodes
    /\ steps >= RecursionLimit
    /\ Raise


\* ServiceFailure, caught in the node: the run goes on to the general
\* responder with the State as it was.
ServiceFailure_Defaulted(node) ==
    /\ Superstep(node)
    /\ pc' = "general_agent"
    /\ UNCHANGED << session, channels, result, outcome, cycles, routed, used, aux >>

\* ServiceFailure, caught in the node: the node is run again.
ServiceFailure_Retried(node) ==
    /\ Superstep(node)
    /\ pc' = node
    /\ UNCHANGED << session, channels, result, outcome, cycles, routed, used, aux >>

\* A model or retrieval call inside `node` raises: nothing catches it in the
\* node, so it leaves the graph.
ServiceFailure(node) ==
    /\ pc = node
    /\ steps < RecursionLimit
    /\ Raise

\* ------------------------------------------------------------------ nodes
user_input_node ==
    /\ Superstep("user_input")
    /\ pc' = "supervisor"
    /\ UNCHANGED << session, channels, result, outcome, cycles, routed, used, aux >>

\* NormalizeUniversity, without the containment tests.
NormalizeUniversity_Raw(content) == upper(strip(content))

\* NormalizeUniversity, testing for FAST before NUST.
NormalizeUniversity_FastFirst(content) ==
    LET uni == upper(strip(content))
    IN  IF Contains(uni, FAST) THEN FAST
        ELSE IF Contains(uni, NUST) THEN NUST
        ELSE IF Contains(uni, COMSATS) THEN COMSATS
        ELSE uni

\* The label supervisor_node makes of the classifier's response.
NormalizeUniversity(content) ==
    LET uni == upper(strip(content))
    IN  IF Contains(uni, NUST) THEN NUST
        ELSE IF Contains(uni, FAST) THEN FAST
        ELSE IF Contains(uni, COMSATS) THEN COMSATS
        ELSE uni

\* route_supervisor, matching a label that contains the institution's name.
route_supervisor_Contains(label) ==
    LET university == upper(label)
    IN  IF Contains(university, NUST) THEN "nust_agent"
        ELSE IF Contains(university, COMSATS) THEN "comsats_agent"
        ELSE IF Contains(university, FAST) THEN "fast_agent"
        ELSE "general_agent"

\* route_supervisor: the agent node for a label
route_supervisor(label) ==
    LET university == upper(label)
    IN  IF university = NUST THEN "nust_agent"
        ELSE IF university = COMSATS THEN "comsats_agent"
        ELSE IF university = FAST THEN "fast_agent"
        ELSE "general_agent"

\* query_for_prompt in supervisor_node
query_for_prompt == Or(rewritten_query, user_query)

\* The label for each response the classifier may give.
RouterLabel == [content \in RouterResponses |-> NormalizeUniversity(content)]

supervisor_node ==
    \/ /\ Superstep("supervisor")
       /\ \E content \in RouterResponses :
            \E uni \in {RouterLabel[content]} :
                /\ university_name' = uni
                /\ routed' = uni
                /\ pc' = route_supervisor(uni)
       /\ route_query' = query_for_prompt
       /\ UNCHANGED << session, user_query, rewritten_query, answer,
                       quality_passed, conversation_history, result, outcome,
                       cycles, respond_query, responder_calls, aux >>
    \/ ServiceFailure("supervisor")

\* new_entry, recording the query the responder answered.
new_entry_Rewritten(tag, ans) ==
    [university |-> tag, question |-> Or(rewritten_query, user_query),
     answer |-> ans]

\* new_entry, recording the answer State held before this responder ran.
new_entry_Stale(tag, ans) ==
    [university |-> tag, question |-> user_query, answer |-> answer]

\* The history entry a responder adds.
new_entry(tag, ans) ==
    [university |-> tag, question |-> user_query, answer |-> ans]

\* caller_list_after, with the update appended to the caller's list in place.
caller_list_after_Extend(update) == session_history \o update

\* The list the caller passed in (input_state refers to it, and so does the
\* session) after the reducer merged `update`: operator.add builds its result
\* in a new list and writes neither operand.
caller_list_after(update) == session_history

\* agent_query, always the original query.
agent_query_Original == user_query

\* `query` in the agent of create_university_agent and in general_agent
agent_query == Or(rewritten_query, user_query)

\* What a responder returns, merged into State.
AgentUpdate(tag, ans) ==
    /\ answer' = ans
    /\ respond_query' = agent_query
    /\ \E entry \in {new_entry(tag, ans)} :
         /\ conversation_history' = add(conversation_history, <<entry>>)
         /\ session_history' = caller_list_after(<<entry>>)
    /\ cycles' = cycles + 1
    /\ pc' = "quality_checker"
    /\ UNCHANGED << session_university, user_query, university_name,
                    rewritten_query, quality_passed, result, outcome, routed,
                    route_query, aux >>

\* The node build_workflow registers for create_university_agent(name, ...).
AgentNode(name) ==
    IF name = NUST THEN "nust_agent"
    ELSE IF name = COMSATS THEN "comsats_agent"
    ELSE "fast_agent"

\* create_university_agent(name, VECTOR_DBS).agent, for the three agents
\* backend.py creates: vector_dbs[name.upper()] is a key of VECTOR_DBS.
\* run_chain_calls, with the generation call made a second time.
run_chain_calls_Regenerates(name) ==
    << [service |-> "retrieval", index |-> upper(name)],
       [service |-> "generation", index |-> <<>>],
       [service |-> "generation", index |-> <<>>] >>

\* The service calls of agent(state): run_chain asks the retriever of
\* vector_dbs[university_name.upper()] once, then the model once.
run_chain_calls(name) ==
    << [service |-> "retrieval", index |-> upper(name)],
       [service |-> "generation", index |-> <<>>] >>

university_agent ==
    \E name \in Universities :
        \/ /\ Superstep(AgentNode(name))
           /\ \E ans \in RagAnswers, tag \in {upper(name)} :
                AgentUpdate(tag, ans)
           /\ responder_calls' = run_chain_calls(name)
        \/ ServiceFailure(AgentNode(name))

\* response.content.strip() for each response of the general agent's model.
GeneralAnswer == [content \in GeneralResponses |-> strip(content)]

\* The service calls of general_agent(state): llm.invoke(prompt), once.
general_agent_calls == << [service |-> "generation", index |-> <<>>] >>

general_agent ==
    \/ /\ Superstep("general_agent")
       /\ \E content \in GeneralResponses :
            \E ans \in {GeneralAnswer[content]} : AgentUpdate(GENERAL, ans)
       /\ responder_calls' = general_agent_calls
    \/ ServiceFailure("general_agent")

\* QualityVerdict, accepting only a response that is YES and nothing more.
QualityVerdict_Exact(content) == upper(strip(content)) = YES

\* The verdict quality_checker_node reads off the classifier's response.
QualityVerdict(content) == Contains(upper(strip(content)), YES)

\* route_quality_checker, blind to the verdict.
route_quality_checker_AlwaysBad(passed) == "BAD"

\* route_quality_checker, taking the GOOD branch whatever the verdict.
route_quality_checker_AlwaysGood(passed) == "GOOD"

\* route_quality_checker
route_quality_checker(passed) == IF passed THEN "GOOD" ELSE "BAD"

\* QualityEdge, with the two targets exchanged.
QualityEdge_Swapped(branch) ==
    IF branch = "GOOD" THEN "query_rewriter" ELSE "printer"

\* the conditional edges of quality_checker in build_workflow
QualityEdge(branch) == IF branch = "GOOD" THEN "printer" ELSE "query_rewriter"

\* The verdict for each response the quality classifier may give.
GateVerdict == [content \in GateResponses |-> QualityVerdict(content)]

\* `query` in quality_checker_node
checker_query == Or(rewritten_query, user_query)

\* checked_rewritten_query, clearing the rewritten query on an accept only.
checked_rewritten_query_OnAccept(passed) ==
    IF passed THEN <<>> ELSE rewritten_query

\* checked_rewritten_query, clearing the rewritten query on a reject only.
checked_rewritten_query_OnReject(passed) ==
    IF passed THEN rewritten_query ELSE <<>>

\* The "rewritten_query" key of what quality_checker_node returns: "" in
\* both branches.
checked_rewritten_query(passed) == <<>>

quality_checker_node ==
    \/ /\ Superstep("quality_checker")
       /\ \E content \in GateResponses :
            \E passed \in {GateVerdict[content]} :
                /\ quality_passed' = passed
                /\ pc' = QualityEdge(route_quality_checker(passed))
                /\ rewritten_query' = checked_rewritten_query(passed)
       /\ route_query' = <<>>
       /\ respond_query' = <<>>
       /\ responder_calls' = <<>>
       /\ UNCHANGED << session, user_query, university_name, answer,
                       conversation_history, result, outcome, cycles, routed,
                       aux >>
    \/ ServiceFailure("quality_checker")

\* The text query_rewriter_node keeps of the model's response.
CleanRewrite(content) == strip(RemoveChar(strip(content), "*"))

\* RewrittenQuery, without the test of the length.
RewrittenQuery_NoLengthCheck(content, original) ==
    IF CleanRewrite(content) = <<>> THEN original ELSE CleanRewrite(content)

\* The rewritten query for a response: the original when the cleaned text is
\* empty or shorter than 5 characters.
RewrittenQuery(content, original) ==
    IF CleanRewrite(content) = <<>> \/ Len(CleanRewrite(content)) < 5
    THEN original
    ELSE CleanRewrite(content)

\* The rewritten query for each response of the rewriting model.
Rewrite == [content \in RewriterResponses, original \in Queries |->
               RewrittenQuery(content, original)]

\* What query_rewriter_node puts into its prompt: state['user_query'] as the
\* original question and state['university_name'].upper() as the context.
rewriter_input ==
    [question |-> user_query, university |-> upper(university_name)]

\* query_rewriter_node, returning the rewrite under the key user_query too.
query_rewriter_node_Overwrites ==
    /\ Superstep("query_rewriter")
    /\ \/ \E content \in RewriterResponses :
            \E rewritten \in {Rewrite[content, user_query]} :
                /\ rewritten_query' = rewritten
                /\ user_query' = rewritten
       \/ /\ rewritten_query' = user_query
          /\ user_query' = user_query
    /\ pc' = "supervisor"
    /\ UNCHANGED << session, university_name, answer,
                    quality_passed, conversation_history, result, outcome,
                    cycles, routed, used, aux >>

query_rewriter_node ==
    /\ Superstep("query_rewriter")
    /\ \/ \E content \in RewriterResponses :
            \E rewritten \in {Rewrite[content, user_query]} :
                rewritten_query' = rewritten
       \/ rewritten_query' = user_query      \* except Exception
    /\ pc' = "supervisor"
    /\ UNCHANGED << session, user_query, university_name, answer,
                    quality_passed, conversation_history, result, outcome,
                    cycles, routed, used, aux >>

printer_node ==
    /\ Superstep("printer")
    /\ pc' = "END"
    /\ UNCHANGED << session, channels, result, outcome, cycles, routed, used, aux >>

\* SuccessResult, returning the university_name argument of the call.
SuccessResult_InputContext ==
    [answer |-> answer,
     university_name |-> session_university,
     conversation_history |-> conversation_history]

\* What the try branch of process_query makes of the final State; every key
\* it reads with result.get is set by then (a responder has run).
SuccessResult ==
    [answer |-> answer,
     university_name |-> university_name,
     conversation_history |-> conversation_history]

\* The try branch of process_query: workflow.invoke returned the final State.
process_query_return ==
    /\ pc = "END"
    /\ result' = SuccessResult
    /\ outcome' = "done"
    /\ pc' = "returned"
    /\ Discard
    /\ UNCHANGED << session, steps, cycles, routed, used, aux >>

\* ----------------------------------------------------------------- caller
\* The caller stores what process_query returned (PROCESS PENDING QUERY in
\* app.py, the CLI loop in backend.py).
update_session ==
    /\ pc = "returned"
    /\ session_history' = result["conversation_history"]
    /\ session_university' = result["university_name"]
    /\ result' = NoResult
    /\ outcome' = "none"
    /\ cycles' = 0
    /\ routed' = <<>>
    /\ steps' = 0
    /\ pc' = "idle"
    /\ UNCHANGED << channels, used, aux >>

Next ==
    \/ \E query \in Queries : process_query(query)
    \/ user_input_node
    \/ supervisor_node
    \/ university_agent
    \/ general_agent
    \/ quality_checker_node
    \/ query_rewriter_node
    \/ printer_node
    \/ GraphRecursionError
    \/ process_query_return
    \/ update_session

Spec == Init /\ [][Next]_vars


\* One invocation runs as a sequential pipeline of blocking calls, each of
\* which returns or raises: a step of the invocation that can be taken is
\* taken.  Nothing obliges the user to ask, so process_query has no fairness.
Invocation ==
    \/ user_input_node
    \/ supervisor_node
    \/ university_agent
    \/ general_agent
    \/ quality_checker_node
    \/ query_rewriter_node
    \/ printer_node
    \/ GraphRecursionError
    \/ process_query_return

FairSpec == Spec /\ WF_vars(Invocation)

\* ------------------------------------------------------------ unit checks
\* The functions of helper_functions.py that decide on a text, each applied
\* to texts from a larger set than the workflow above is run with.  A text is
\* up to MaxWords words joined by single spaces.
MaxWords == 2

RECURSIVE Join(_)
Join(ws) ==
    IF ws = <<>> THEN <<>>
    ELSE IF Len(ws) = 1 THEN ws[1]
    ELSE ws[1] \o <<" ">> \o Join(Tail(ws))

Texts(words) ==
    { Join(ws) : ws \in UNION { [1..k -> words] : k \in 0..MaxWords } }

\* resp.content of the routing classifier
RouterWords ==
    { <<" ","n","u","s","t">>, <<"N","U","S","T">>, <<"F","a","s","t">>,
      <<"C","O","M","S","A","T","S">>, <<"B","a","h","r","i","a">>,
      <<"G","E","N","E","R","A","L">>, <<"g","e","n","e","r","a","l","\n">>,
      <<"F","a","s","t","-","N","U">> }

ClassifierResponses == Texts(RouterWords)

\* A question that names two of the institutions, beside one that names none.
ComparisonQuery == <<"n","u","s","t"," ","o","r"," ","f","a","s","t","?">>
ProbeQueries == { OpeningQuery, ComparisonQuery }

\* The institutions of VECTOR_DBS a query names.
NamedIn(query) == { u \in Universities : Contains(upper(query), u) }

\* Rule 3 of the routing prompt: "If user mentions multiple universities,
\* respond with GENERAL".  The classifier follows its prompt: for such a query
\* its response says GENERAL (in any case, and possibly with more text).
FollowsRoutingPrompt(query, content) ==
    Cardinality(NamedIn(query)) >= 2 => Contains(upper(content), GENERAL)

\* supervisor_node applied to a query and the response its classifier gave.
probe_supervisor_node ==
    \E query \in ProbeQueries, content \in ClassifierResponses :
        /\ probe = NoProbe
        /\ FollowsRoutingPrompt(query, content)
        /\ probe' = [NoProbe EXCEPT !.fn = "supervisor_node",
                                    !.query = query,
                                    !.content = content,
                                    !.text = NormalizeUniversity(content)]
        /\ UNCHANGED << vars, conc, front >>

\* The labels route_supervisor is applied to: what supervisor_node makes of a
\* response, and upper-case texts it would not make.
Labels ==
    { NormalizeUniversity(c) : c \in ClassifierResponses }
        \cup { upper(c) : c \in ClassifierResponses }

probe_route_supervisor ==
    \E label \in Labels :
        /\ probe = NoProbe
        /\ probe' = [NoProbe EXCEPT !.fn = "route_supervisor",
                                    !.content = label,
                                    !.node = route_supervisor(label)]
        /\ UNCHANGED << vars, conc, front >>

\* .content of the quality classifier's response
GateWords ==
    { <<"Y","E","S">>, <<" ","y","e","s",".">>, <<"N","o">>, <<"Y">>,
      <<"E","S">>, <<"m","a","y","b","e">> }

probe_quality_checker_node ==
    \E content \in Texts(GateWords) :
        /\ probe = NoProbe
        /\ probe' = [NoProbe EXCEPT !.fn = "quality_checker_node",
                                    !.content = content,
                                    !.flag = QualityVerdict(content)]
        /\ UNCHANGED << vars, conc, front >>

ProbeNext ==
    \/ probe_supervisor_node
    \/ probe_route_supervisor
    \/ probe_quality_checker_node

ProbeSpec == Init /\ [][ProbeNext]_<< vars, aux >>

\* ------------------------------------------------------------ two sessions
\* Two sessions of app.py in one process: both call process_query of the one
\* backend module, which holds VECTOR_DBS, the agents and the compiled
\* workflow.  Each invocation's State lives in its own call of
\* workflow.invoke; the steps of the two interleave.  An invocation is
\* followed for its first MaxConcSteps supersteps.
MaxConcSteps == 5

\* a service call that raises
Raises == << "raise" >>

InstitutionNodes == { AgentNode(u) : u \in Universities }

InstitutionOf(node) == CHOOSE u \in Universities : AgentNode(u) = node

\* What the service call of a node may give; user_input and printer call none.
NodeResponses(node) ==
    CASE node = "supervisor" -> RouterResponses \cup {Raises}
      [] node \in InstitutionNodes -> RagAnswers \cup {Raises}
      [] node = "general_agent" -> GeneralResponses \cup {Raises}
      [] node = "quality_checker" -> GateResponses \cup {Raises}
      [] node = "query_rewriter" -> RewriterResponses \cup {Raises}
      [] OTHER -> { <<>> }

\* input_state of process_query, and the arguments the except branch returns.
input_state(query, university, history) ==
    [Idle EXCEPT !.pc = "user_input",
                 !.user_query = query,
                 !.university_name = university,
                 !.conversation_history = add(<<>>, history),
                 !.university_arg = university,
                 !.history_arg = history]

\* The invocation after its next step, given what the step's service call
\* gave: the node functions of helper_functions.py on one invocation's State,
\* and the two ways process_query returns.
StateAfter(st, r) ==
    LET stepped == [st EXCEPT !.steps = @ + 1]
        respond(tag, ans) ==
            [stepped EXCEPT
                !.answer = ans,
                !.conversation_history =
                    add(@, << [university |-> tag, question |-> st.user_query,
                               answer |-> ans] >>),
                !.pc = "quality_checker"]
    IN  IF st.pc = "END"
        THEN [Idle EXCEPT !.pc = "returned",
                          !.result =
                              [answer |-> st.answer,
                               university_name |-> st.university_name,
                               conversation_history |-> st.conversation_history]]
        ELSE IF r = Raises /\ st.pc # "query_rewriter"
        THEN [Idle EXCEPT !.pc = "returned",
                          !.result =
                              [answer |-> ErrorAnswer,
                               university_name |-> st.university_arg,
                               conversation_history |-> st.history_arg]]
        ELSE CASE st.pc = "user_input" -> [stepped EXCEPT !.pc = "supervisor"]
               [] st.pc = "supervisor" ->
                    [stepped EXCEPT
                        !.university_name = NormalizeUniversity(r),
                        !.pc = route_supervisor(NormalizeUniversity(r))]
               [] st.pc \in InstitutionNodes ->
                    respond(upper(InstitutionOf(st.pc)), r)
               [] st.pc = "general_agent" -> respond(GENERAL, strip(r))
               [] st.pc = "quality_checker" ->
                    [stepped EXCEPT
                        !.quality_passed = QualityVerdict(r),
                        !.rewritten_query =
                            checked_rewritten_query(QualityVerdict(r)),
                        !.pc = QualityEdge(
                                  route_quality_checker(QualityVerdict(r)))]
               [] st.pc = "query_rewriter" ->
                    [stepped EXCEPT
                        !.rewritten_query =
                            IF r = Raises THEN st.user_query
                            ELSE RewrittenQuery(r, st.user_query),
                        !.pc = "supervisor"]
               [] st.pc = "printer" -> [stepped EXCEPT !.pc = "END"]

\* vector_dbs_after, with the agent adding to the index it answered from.
vector_dbs_after_Indexed(name) ==
    [VECTOR_DBS EXCEPT ![name] = Append(@, <<"q","a">>)]

\* VECTOR_DBS after the agent of `name` ran: db.as_retriever and
\* retriever.invoke read vector_dbs[name] and write nothing.
vector_dbs_after(name) == VECTOR_DBS

\* PROCESS PENDING QUERY of app.py, up to the call of process_query.
conc_process_query(s) ==
    /\ run[s].pc = "idle"
    /\ store[s].pending_query # <<>>
    /\ run' = [run EXCEPT ![s] = input_state(store[s].pending_query,
                                             store[s].university_name,
                                             store[s].conversation_history)]
    /\ store' = [store EXCEPT ![s].pending_query = <<>>]
    /\ UNCHANGED << VECTOR_DBS, heard, vars, probe, front >>

\* One superstep of the invocation of session s.
conc_invoke(s) ==
    /\ run[s].pc \in Nodes
    /\ run[s].steps < MaxConcSteps
    /\ \E r \in NodeResponses(run[s].pc) :
         /\ run' = [run EXCEPT ![s] = StateAfter(run[s], r)]
         /\ heard' = [heard EXCEPT ![s] = Append(@, r)]
    /\ VECTOR_DBS' = IF run[s].pc \in InstitutionNodes
                     THEN vector_dbs_after(InstitutionOf(run[s].pc))
                     ELSE VECTOR_DBS
    /\ UNCHANGED << store, vars, probe, front >>

\* workflow.invoke returned the final State to process_query.
conc_return(s) ==
    /\ run[s].pc = "END"
    /\ run' = [run EXCEPT ![s] = StateAfter(run[s], <<>>)]
    /\ heard' = [heard EXCEPT ![s] = Append(@, <<>>)]
    /\ UNCHANGED << VECTOR_DBS, store, vars, probe, front >>

\* PROCESS PENDING QUERY of app.py, after process_query returned.
conc_update_session(s) ==
    /\ run[s].pc = "returned"
    /\ store' = [store EXCEPT
                    ![s].conversation_history =
                        run[s].result["conversation_history"],
                    ![s].university_name = run[s].result["university_name"]]
    /\ run' = [run EXCEPT ![s] = Idle]
    /\ UNCHANGED << VECTOR_DBS, heard, vars, probe, front >>

ConcNext ==
    \E s \in Sessions :
        \/ conc_process_query(s)
        \/ conc_invoke(s)
        \/ conc_return(s)
        \/ conc_update_session(s)

ConcSpec == Init /\ [][ConcNext]_<< vars, aux >>

\* The front ends ------------------------------------------------------------

\* Questions asked of one front end.
MaxTurns == 2

\* What process_query(query, conversation_history, university_name) may
\* return: the State of an invocation accepted after one cycle (the router's
\* label, the history with the responder's entry appended), or the except
\* branch's result with the caller's own arguments.
process_query_results(query, university, history) ==
    LET tag(label) == IF label \in Universities THEN label ELSE GENERAL
        answers(label) ==
            IF label \in Universities
            THEN RagAnswers
            ELSE { GeneralAnswer[c] : c \in GeneralResponses }
        accepted(label) ==
            { [answer |-> ans,
               university_name |-> label,
               conversation_history |->
                   add(history, << [university |-> tag(label),
                                    question |-> query,
                                    answer |-> ans] >>)] :
                ans \in answers(label) }
    IN  UNION { accepted(RouterLabel[content]) : content \in RouterResponses }
        \cup { [answer |-> ErrorAnswer,
                university_name |-> university,
                conversation_history |-> history] }

\* streamlit run app.py: the script's first run.
app_launch ==
    /\ frontend = "none"
    /\ frontend' = "app"
    /\ session_state' = InitialSessionState
    /\ UNCHANGED << persistent_state, invocations, vars, probe, conc >>

\* python backend.py: the command line loop starts.
backend_main ==
    /\ frontend = "none"
    /\ frontend' = "backend"
    /\ persistent_state' = InitialPersistentState
    /\ UNCHANGED << session_state, invocations, vars, probe, conc >>

\* PROCESS USER INPUT of app.py: the question is logged and left pending.
app_chat_input ==
    \E query \in Queries :
        /\ frontend = "app"
        /\ session_state.pending_query = <<>>
        /\ invocations < MaxTurns
        /\ session_state' =
              [session_state EXCEPT
                  !.messages = Append(@, [role |-> "user", content |-> query]),
                  !.pending_query = query]
        /\ UNCHANGED << frontend, persistent_state, invocations,
                        vars, probe, conc >>

\* PROCESS PENDING QUERY of app.py.
app_process_pending ==
    /\ frontend = "app"
    /\ session_state.pending_query # <<>>
    /\ \E res \in process_query_results(session_state.pending_query,
                                         session_state.university_name,
                                         session_state.conversation_history) :
          session_state' =
              [session_state EXCEPT
                  !.pending_query = <<>>,
                  !.conversation_history = res.conversation_history,
                  !.university_name = res.university_name,
                  !.messages = Append(@, [role |-> "assistant",
                                          content |-> res.answer])]
    /\ invocations' = invocations + 1
    /\ UNCHANGED << frontend, persistent_state, vars, probe, conc >>

\* app_clear, resetting the institution context as the command line does.
app_clear_ResetsContext ==
    /\ frontend = "app"
    /\ session_state.pending_query = <<>>
    /\ session_state' = [session_state EXCEPT !.messages = <<>>,
                                              !.conversation_history = <<>>,
                                              !.university_name = COMSATS]
    /\ UNCHANGED << frontend, persistent_state, invocations,
                    vars, probe, conc >>

\* The Clear Chat History button of app.py, pressed while no question is
\* pending: messages and conversation_history are emptied, then st.rerun().
app_clear ==
    /\ frontend = "app"
    /\ session_state.pending_query = <<>>
    /\ session_state' = [session_state EXCEPT !.messages = <<>>,
                                              !.conversation_history = <<>>]
    /\ UNCHANGED << frontend, persistent_state, invocations,
                    vars, probe, conc >>

\* The command line loop given a question: process_query, then the update of
\* persistent_state.
backend_query ==
    \E query \in Queries :
        /\ frontend = "backend"
        /\ invocations < MaxTurns
        /\ \E res \in process_query_results(
                            query,
                            persistent_state.university_name,
                            persistent_state.conversation_history) :
              persistent_state' =
                  [conversation_history |-> res.conversation_history,
                   university_name |-> res.university_name]
        /\ invocations' = invocations + 1
        /\ UNCHANGED << frontend, session_state, vars, probe, conc >>

\* The command line loop given 'clear'.
backend_clear ==
    /\ frontend = "backend"
    /\ persistent_state' = [conversation_history |-> <<>>,
                            university_name |-> COMSATS]
    /\ UNCHANGED << frontend, session_state, invocations,
                    vars, probe, conc >>

FrontNext ==
    \/ app_launch
    \/ backend_main
    \/ app_chat_input
    \/ app_process_pending
    \/ app_clear
    \/ backend_query
    \/ backend_clear

FrontSpec == Init /\ [][FrontNext]_<< vars, aux >>

\* ----------------------------------------------------------------- claims
InFlight == pc \notin {"idle", "returned"}

IsPrefix(a, b) == Len(a) <= Len(b) /\ SubSeq(b, 1, Len(a)) = a

AgentNodes == {"nust_agent", "comsats_agent", "fast_agent", "general_agent"}

\* C1: every invocation terminates: once process_query has been entered it
\* eventually returns (through DONE or through the error boundary), whatever
\* the services answer, a Quality Gate that rejects every answer included.
C1_Terminates == InFlight ~> (pc = "returned")

\* An invocation that the gate never accepted and that the recursion limit
\* ended after its sixth cycle.
C1_Witness ==
    /\ pc = "returned"
    /\ outcome = "error"
    /\ steps = RecursionLimit
    /\ cycles = 6

\* C2 (as claimed): an invocation never runs more than 3 route -> respond ->
\* check cycles.
C2_AtMostThreeCycles == cycles <= 3

\* C3: a failed invocation returns the error message together with the
\* institution context and history the caller passed in, and storing that
\* result leaves the session as it was.
C3_ErrorPreservesSession ==
    [][ /\ outcome' = "error" =>
             /\ pc' = "returned"
             /\ result'["answer"] = ErrorAnswer
             /\ result'["university_name"] = session_university
             /\ result'["conversation_history"] = session_history
        /\ outcome = "error" => session' = session ]_vars

\* A failure in a retry cycle of a call that was given a non-empty history.
C3_Witness ==
    /\ pc = "returned"
    /\ outcome = "error"
    /\ cycles >= 2
    /\ steps < RecursionLimit
    /\ session_history # <<>>

\* C4: at DONE the returned history is the history passed in plus exactly one
\* entry per cycle executed, rejected answers included; while the invocation
\* runs the working history is likewise one entry per responder pass longer.
C4_OneEntryPerCycle ==
    /\ outcome = "done" =>
         /\ cycles >= 1
         /\ Len(result["conversation_history"]) = Len(session_history) + cycles
    /\ InFlight => Len(conversation_history) = Len(session_history) + cycles

\* DONE after two rejected answers: three cycles, three new entries.
C4_Witness ==
    /\ outcome = "done"
    /\ cycles = 3
    /\ Len(result["conversation_history"]) = Len(session_history) + 3

\* C5: the history given to a successful call is a strict prefix of the
\* history it returns, and of the history the session then holds for the
\* next call.
C5_StrictPrefix ==
    [][ (pc = "returned" /\ outcome = "done") =>
          /\ IsPrefix(session_history, result["conversation_history"])
          /\ Len(session_history) < Len(result["conversation_history"])
          /\ session_history' = result["conversation_history"] ]_vars

\* A second successful call: it was given the entries of an earlier one.
C5_Witness ==
    /\ pc = "returned"
    /\ outcome = "done"
    /\ session_history # <<>>
    /\ IsPrefix(session_history, result["conversation_history"])


\* C6: DONE is reached the first time CHECK accepts: an accepting CHECK is
\* followed by the printer and the end of the graph and by no other node, and
\* the answer process_query returns is the answer that was accepted.
C6_DoneOnFirstAccept ==
    [][ /\ (pc = "quality_checker" /\ quality_passed') =>
             (pc' = "printer" /\ answer' = answer /\ cycles' = cycles)
        /\ pc = "printer" =>
             (quality_passed /\ pc' = "END" /\ answer' = answer
                /\ cycles' = cycles)
        /\ pc = "END" =>
             (pc' = "returned" /\ outcome' = "done"
                /\ result'["answer"] = answer /\ cycles' = cycles) ]_vars

\* An answer accepted on a retry cycle, about to reach DONE.
C6_Witness ==
    /\ pc = "printer"
    /\ quality_passed
    /\ cycles >= 2

\* C7: the label of a ROUTE step becomes the working institution context:
\* RESPOND dispatches on it, it is still the context when a later ROUTE step
\* runs, and at DONE the returned context is the label of the last ROUTE.
C7_RoutedLabel ==
    /\ pc \in AgentNodes =>
         (university_name = routed /\ pc = route_supervisor(routed))
    /\ (InFlight /\ cycles >= 1) => university_name = routed
    /\ outcome = "done" => result["university_name"] = routed

\* A session whose context was not NUST gets NUST back from a call whose
\* last ROUTE step said NUST.
C7_Witness ==
    /\ pc = "returned"
    /\ outcome = "done"
    /\ routed = NUST
    /\ session_university # NUST
    /\ result["university_name"] = NUST

\* C8 (as claimed): the session's institution context is NUST, COMSATS, FAST
\* or empty.
C8_KnownOrEmpty == session_university \in Universities \cup {<<>>}

\* C8 (amended): the session's institution context is NUST, COMSATS or FAST,
\* or else an upper-case, trimmed label that contains none of these names
\* (GENERAL, a free-text institution name, or empty).
C8_KnownOrFreeText ==
    \/ session_university \in Universities
    \/ /\ upper(strip(session_university)) = session_university
       /\ \A u \in Universities : ~Contains(session_university, u)

\* The session holds the free-text label of an unknown institution.
C8_Witness ==
    /\ pc = "idle"
    /\ session_university = <<"B","A","H","R","I","A">>

\* C9: the entry a responder adds holds the responder's tag (the routed
\* institution for an institution responder, GENERAL for the general one),
\* the original query of the invocation and the answer of that pass.
C9_EntryContent ==
    [][ cycles' = cycles + 1 =>
          /\ Len(conversation_history') = Len(conversation_history) + 1
          /\ SubSeq(conversation_history', 1, Len(conversation_history))
                = conversation_history
          /\ LET e == conversation_history'[Len(conversation_history')]
             IN  /\ e["question"] = user_query
                 /\ e["answer"] = answer'
                 /\ pc = "general_agent" => e["university"] = GENERAL
                 /\ pc # "general_agent" =>
                      (e["university"] = routed /\ routed \in Universities)
      ]_vars

\* A retry cycle: the responder answered a rewritten query and the entry it
\* added holds the original one.
C9_Witness ==
    /\ pc = "quality_checker"
    /\ cycles >= 2
    /\ rewritten_query \notin {<<>>, user_query}
    /\ conversation_history[Len(conversation_history)]["question"] = user_query

\* C10: no step of an invocation writes the history sequence the caller
\* passed in; the session's history changes only when the caller stores a
\* result, and then the earlier entries stay as they were, in place.
C10_CallerHistoryFrame ==
    [][ /\ pc # "returned" => session_history' = session_history
        /\ pc = "returned" => IsPrefix(session_history, session_history')
      ]_vars

\* A call that was given one earlier turn has run a responder and returned.
C10_Witness ==
    /\ pc = "returned"
    /\ Len(session_history) = 1
    /\ cycles = 1

\* C12: the responder that runs is chosen by exact match of the routed label:
\* NUST, COMSATS and FAST select their institution's responder, and every
\* other label (GENERAL, a free-text name, a text that merely contains a known
\* name, the empty label) selects the general responder.
C12_ExactMatchDispatch ==
    probe.fn = "route_supervisor" =>
        /\ probe.node \in AgentNodes
        /\ probe.node = "nust_agent" <=> probe.content = NUST
        /\ probe.node = "comsats_agent" <=> probe.content = COMSATS
        /\ probe.node = "fast_agent" <=> probe.content = FAST
        /\ probe.node = "general_agent" <=> probe.content \notin Universities

\* A free-text institution name was dispatched to the general responder.
C12_Witness ==
    /\ probe.fn = "route_supervisor"
    /\ probe.content = <<"B","A","H","R","I","A">>
    /\ probe.node = "general_agent"

\* C13: the query rewriter runs only after the gate rejected the answer of the
\* cycle before it: the only step into REWRITE is a CHECK whose verdict is a
\* reject, REWRITE never runs before a first cycle has been checked, and up to
\* and including the first CHECK no rewritten query exists, so the first
\* ROUTE, RESPOND and CHECK work on the original query.
C13_RewriteOnlyAfterReject ==
    [][ /\ (pc' = "query_rewriter" /\ pc # "query_rewriter") =>
              /\ pc = "quality_checker"
              /\ ~quality_passed'
              /\ cycles' >= 1
        /\ (pc = "query_rewriter" /\ pc' = "supervisor") =>
              /\ ~quality_passed
              /\ cycles >= 1
        /\ (InFlight' /\ steps' <= 3) =>
              /\ rewritten_query' = <<>>
              /\ Or(rewritten_query', user_query') = user_query'
      ]_vars

\* REWRITE has run, after the gate rejected the first cycle's answer, and the
\* second ROUTE is due with a rewritten query.
C13_Witness ==
    /\ pc = "supervisor"
    /\ steps = 5
    /\ cycles = 1
    /\ ~quality_passed
    /\ rewritten_query \notin {<<>>, user_query}

\* What the error boundary returns for the caller's arguments.
ErrorReturned ==
    /\ pc' = "returned"
    /\ outcome' = "error"
    /\ result' = [answer |-> ErrorAnswer,
                  university_name |-> session_university,
                  conversation_history |-> session_history]
    /\ cycles' = cycles
    /\ UNCHANGED session

\* C14 (as claimed): a failure of the router's classifier call is recovered in
\* the router: whatever happens in ROUTE, the invocation continues to RESPOND.
C14_RouterFailureRecovered ==
    [][ (pc = "supervisor" /\ steps < RecursionLimit) => pc' \in AgentNodes ]_vars

\* C14 (amended): a ROUTE step either routes by the label made of the
\* classifier's response, or (the classifier call failed) ends the invocation
\* at the error boundary: the error message with the caller's own context and
\* history, no default label, and no responder run for it.
C14_RouterFailurePropagates ==
    [][ (pc = "supervisor" /\ steps < RecursionLimit) =>
            \/ /\ \E content \in RouterResponses :
                     university_name' = NormalizeUniversity(content)
               /\ routed' = university_name'
               /\ pc' = route_supervisor(university_name')
               /\ outcome' = outcome
            \/ ErrorReturned
      ]_vars

\* The classifier call of the first ROUTE failed: the invocation has returned
\* the error after user_input alone had run.
C14_Witness ==
    /\ pc = "returned"
    /\ outcome = "error"
    /\ steps = 1
    /\ cycles = 0
    /\ routed = <<>>

\* C15 (as claimed): a failure of the gate's classifier call is treated as a
\* reject: whatever happens in CHECK, the invocation goes on (to REWRITE, or
\* to the printer on an accept) and does not end with an error.
C15_GateFailureIsReject ==
    [][ (pc = "quality_checker" /\ steps < RecursionLimit) =>
            pc' \in {"query_rewriter", "printer"} ]_vars

\* C15 (amended): a CHECK step either follows the edge of its verdict, or
\* (the classifier call failed) ends the invocation at the error boundary:
\* the error message with the caller's own context and history; the answer
\* is neither accepted nor rewritten for.
C15_GateFailurePropagates ==
    [][ (pc = "quality_checker" /\ steps < RecursionLimit) =>
            \/ /\ pc' = (IF quality_passed' THEN "printer" ELSE "query_rewriter")
               /\ outcome' = outcome
            \/ ErrorReturned
      ]_vars

\* The classifier call of the first CHECK failed: the invocation has returned
\* the error after user_input, ROUTE and RESPOND had run.
C15_Witness ==
    /\ pc = "returned"
    /\ outcome = "error"
    /\ steps = 3
    /\ cycles = 1

\* C16: the query rewriter never fails the invocation and changes nothing but
\* the rewritten query: a REWRITE step always hands over to ROUTE, leaves the
\* other channels, the session and the result alone, and sets the rewritten
\* query to the original query (the call raised, or its cleaned output was
\* empty or shorter than 5 characters) or else to a cleaned output of 5 or
\* more characters.
C16_RewriterFallsBack ==
    [][ pc = "query_rewriter" =>
            /\ pc' = "supervisor"
            /\ outcome' = outcome
            /\ UNCHANGED << session, user_query, university_name, answer,
                            quality_passed, conversation_history, result,
                            cycles, routed >>
            /\ \/ rewritten_query' = user_query
               \/ \E content \in RewriterResponses :
                     /\ Len(CleanRewrite(content)) >= 5
                     /\ rewritten_query' = CleanRewrite(content)
      ]_vars

\* REWRITE has run and fell back to the original query.
C16_Witness ==
    /\ pc = "supervisor"
    /\ steps = 5
    /\ rewritten_query = user_query
    /\ outcome = "none"

\* C17: within every cycle ROUTE, RESPOND and CHECK work on the same query
\* text: the rewritten query on a retry cycle, the original query on the
\* first.  When CHECK judges the answer, the query it judges it against is
\* the one the responder answered and the router routed.
C17_SameQueryInCycle ==
    [][ (pc = "quality_checker" /\ pc' \in {"printer", "query_rewriter"}) =>
            /\ checker_query = respond_query
            /\ respond_query = route_query
            /\ cycles = 1 => checker_query = user_query
            /\ cycles > 1 => /\ rewritten_query # <<>>
                             /\ checker_query = rewritten_query
      ]_vars

\* CHECK of a retry cycle is due, and the responder answered a rewritten
\* query that differs from the original.
C17_Witness ==
    /\ pc = "quality_checker"
    /\ cycles = 2
    /\ respond_query = rewritten_query
    /\ route_query = rewritten_query
    /\ rewritten_query \notin {<<>>, user_query}

\* C18: the rewritten query is transient: it is non-empty only between a
\* REWRITE and the CHECK of the cycle that follows it (while that cycle's
\* ROUTE, RESPOND or CHECK is due), CHECK leaves it empty on accept and on
\* reject alike, and it is empty when DONE is reached.
C18_RewrittenQueryTransient ==
    /\ rewritten_query # <<>> =>
          \/ pc \in {"supervisor"} \cup AgentNodes /\ cycles >= 1
          \/ pc = "quality_checker" /\ cycles >= 2
    /\ pc \in {"printer", "query_rewriter", "END"} => rewritten_query = <<>>
    /\ outcome = "done" => rewritten_query = <<>>

\* DONE is reached on a retry cycle, whose ROUTE, RESPOND and CHECK had a
\* rewritten query.
C18_Witness ==
    /\ pc = "END"
    /\ cycles = 2
    /\ quality_passed
    /\ rewritten_query = <<>>

\* C19: the gate accepts if and only if the classifier's response contains
\* the affirmative token YES (in any case, anywhere in the response); every
\* other response, an ambiguous or an empty one included, is a reject.
C19_AcceptIffYes ==
    probe.fn = "quality_checker_node" =>
        (probe.flag <=> Contains(upper(probe.content), YES))

\* A response that holds a negative and the affirmative token was accepted.
C19_Witness ==
    /\ probe.fn = "quality_checker_node"
    /\ probe.content = <<"N","o"," ","Y","E","S">>
    /\ probe.flag

\* C20 (as claimed): for every query that names two or more of the known
\* institutions the router returns GENERAL, never one of the institutions
\* named, so that the general responder handles the cycle.
C20_SeveralNamedGivesGeneral ==
    (probe.fn = "supervisor_node" /\ Cardinality(NamedIn(probe.query)) >= 2) =>
        /\ probe.text = GENERAL
        /\ probe.text \notin NamedIn(probe.query)
        /\ route_supervisor(probe.text) = "general_agent"

\* The invocation of session s as its own inputs and the responses its own
\* service calls gave determine it, whatever the other session did meanwhile.
RECURSIVE Replay(_, _)
Replay(st, rs) ==
    IF rs = <<>> THEN st
    ELSE CHOOSE after \in { Replay(StateAfter(now, Head(rs)), Tail(rs)) :
                                now \in {st} } : TRUE

Alone(s) ==
    Replay(input_state(InitialStore[s].pending_query,
                       InitialStore[s].university_name,
                       InitialStore[s].conversation_history), heard[s])

OwnInputsOnly(s) ==
    IF run[s].pc # "idle" THEN run[s] = Alone(s)
    ELSE IF store[s].pending_query # <<>> THEN store[s] = InitialStore[s]
    ELSE /\ store[s].conversation_history =
                Alone(s).result["conversation_history"]
         /\ store[s].university_name = Alone(s).result["university_name"]

CallsTo(service) ==
    { i \in 1..Len(responder_calls) : responder_calls[i].service = service }

C22_OriginalQueryImmutable ==
    [][ (InFlight /\ InFlight') => user_query' = user_query ]_vars

\* Three cycles in, after two rewrites, the original query is still the
\* question the session asked.
C22_Witness ==
    /\ pc = "quality_checker"
    /\ cycles = 3
    /\ session_history = <<>>
    /\ user_query = OpeningQuery
    /\ rewritten_query \notin {<<>>, user_query}

\* C23: a non-error result is produced only after the gate accepted the
\* answer of the final cycle: the printer is entered only by a CHECK whose
\* verdict is an accept, quality_passed is true from there to DONE, and the
\* answer returned as a normal result is that accepted answer.
C23_DoneOnlyAfterAccept ==
    [][ /\ (pc' = "printer" /\ pc # "printer") =>
              /\ pc = "quality_checker"
              /\ quality_passed'
              /\ answer' = answer
        /\ pc' \in {"printer", "END"} => quality_passed'
        /\ (outcome' = "done" /\ outcome # "done") =>
              /\ pc = "END"
              /\ quality_passed
              /\ result'.answer = answer
      ]_vars

\* A normal result was returned on the third cycle, after two rejections.
C23_Witness ==
    /\ pc = "returned"
    /\ outcome = "done"
    /\ cycles = 3
    /\ result.answer # ErrorAnswer

Last(h) == h[Len(h)]

\* C24: on every non-error return the returned answer is the answer field of
\* the last entry of the returned history: the responder writes both in one
\* step and no later step changes either (so it holds from RESPOND on).
C24_AnswerIsLastEntry ==
    /\ (InFlight /\ cycles >= 1) =>
          /\ conversation_history # <<>>
          /\ Last(conversation_history).answer = answer
    /\ outcome = "done" =>
          /\ result.conversation_history # <<>>
          /\ Last(result.conversation_history).answer = result.answer

\* A normal result after two cycles whose responders gave different answers:
\* the returned answer is the second entry's, not the first's.
C24_Witness ==
    /\ pc = "returned"
    /\ outcome = "done"
    /\ Len(result.conversation_history) = 2
    /\ result.conversation_history[1].answer # result.answer
    /\ result.conversation_history[2].answer = result.answer

\* C25: every REWRITE step takes the original query and the label of the most
\* recent ROUTE; it never takes an earlier rewrite (none is left in State when
\* REWRITE runs, CHECK having cleared it), so what it produces is the original
\* query or a cleaned response, and rewrites do not accumulate.
C25_RewriteFromOriginal ==
    [][ (pc = "query_rewriter" /\ pc' = "supervisor") =>
            /\ rewritten_query = <<>>
            /\ Or(rewritten_query, user_query) = rewriter_input.question
            /\ rewriter_input.question = user_query
            /\ rewriter_input.university = upper(routed)
            /\ \/ rewritten_query' = rewriter_input.question
               \/ \E content \in RewriterResponses :
                     rewritten_query' = CleanRewrite(content)
      ]_vars

\* The second REWRITE of an invocation has run, the first having produced a
\* rewrite that differs from the original query.
C25_Witness ==
    /\ pc = "supervisor"
    /\ steps = 9
    /\ cycles = 2
    /\ rewritten_query \notin {<<>>, user_query}
    /\ Len(conversation_history) = 2

\* A longer name that contains the name FAST.
FastNu == <<"F","A","S","T","-","N","U">>

\* C26: the router's label is NUST if the upper-cased response contains NUST,
\* otherwise FAST if it contains FAST, otherwise COMSATS if it contains
\* COMSATS, otherwise the whole stripped, upper-cased response.  So a response
\* naming several known institutions, or a longer name containing a known
\* one, yields one known institution.
C26_ContainmentPrecedence ==
    probe.fn = "supervisor_node" =>
        LET response == upper(strip(probe.content))
            named    == { u \in Universities : Contains(response, u) }
        IN  /\ NUST \in named => probe.text = NUST
            /\ (NUST \notin named /\ FAST \in named) => probe.text = FAST
            /\ (NUST \notin named /\ FAST \notin named /\ COMSATS \in named)
                   => probe.text = COMSATS
            /\ named = {} => probe.text = response
            /\ named # {} => probe.text \in named
            /\ (Contains(response, FastNu) /\ NUST \notin named)
                   => probe.text = FAST

\* A response naming NUST after a longer name that contains FAST: the label
\* is NUST alone.
C26_Witness ==
    /\ probe.fn = "supervisor_node"
    /\ Contains(upper(probe.content), FastNu)
    /\ Contains(upper(probe.content), NUST)
    /\ probe.text = NUST

\* C27: the UI's Clear Chat History empties the message log and the history
\* and leaves the Session's institution context as it is; the CLI's 'clear'
\* empties the history and sets the institution context to COMSATS; neither
\* calls process_query.
C27_ClearDiffers ==
    [][ /\ app_clear =>
              /\ session_state'.messages = <<>>
              /\ session_state'.conversation_history = <<>>
              /\ session_state'.university_name = session_state.university_name
              /\ session_state'.pending_query = <<>>
              /\ invocations' = invocations
        /\ backend_clear =>
              /\ persistent_state'.conversation_history = <<>>
              /\ persistent_state'.university_name = COMSATS
              /\ invocations' = invocations
      ]_front

\* The UI after Clear Chat History in a Session whose context an earlier
\* question had moved to NUST.
C27_Witness ==
    /\ frontend = "app"
    /\ invocations >= 1
    /\ session_state.messages = <<>>
    /\ session_state.conversation_history = <<>>
    /\ session_state.university_name = NUST

====
